---- MODULE Spec2Model ----
(***************************************************************************)
(* A model of cond_sync::CondSync<T> (src/src/lib.rs): a value guarded by  *)
(* a std::sync::Mutex together with a std::sync::Condvar.                  *)
(*                                                                         *)
(* Every thread makes one call on a clone of the same CondSync<usize>.     *)
(* The value starts at 0, the mutator is `|v| *v += 1` and a condition is  *)
(* `|v| *v == k`, as in the crate's tests; a closure may also panic.       *)
(*                                                                         *)
(* Mutex: `locked` says whether some guard is alive; the thread that owns  *)
(* the guard is the one whose pc is at a place where the code holds it.    *)
(* Dropping a guard while panicking poisons the mutex.                      *)
(* Condvar: the blocked threads are those with pc = "blocked".  A blocked   *)
(* thread is woken by notify_one / notify_all, by a spurious wake, or,      *)
(* for a timed wait, by its timeout; it then has to re-acquire the mutex    *)
(* before the wait returns.  The timer is exact: a timed wait is woken at   *)
(* its timeout, the clock does not pass a pending timeout.                  *)
(***************************************************************************)
EXTENDS Naturals, FiniteSets, Sequences

\* Number of threads.
NThreads == 3
\* The clock runs from 0 to MaxTime.
MaxTime == 2
\* The durations passed to the timed waits are 0..MaxDur.
MaxDur == 1
\* Number of spurious wakes in one behaviour.
MaxSpurious == 1

VARIABLES
    value,      \* the T inside the Mutex<T>
    poisoned,   \* the mutex's poison flag
    locked,     \* a MutexGuard is alive
    call,       \* call[t]: the call thread t makes (fixed by Init)
    pc,         \* pc[t]: where thread t is in its call
    result,     \* result[t]: what the call returned
    local,      \* local[t]: the value the mutator has read
    timedOut,   \* timedOut[t]: WaitTimeoutResult::timed_out() of the last timed wait
    entered,    \* entered[t]: the instant at which a timed call got the mutex
    end,        \* end[t]: `let end = Instant::now() + duration`
    wdl,        \* wdl[t]: the instant at which the current timed wait times out
    blockedFor, \* blockedFor[t]: clock ticks t spent blocked on the condvar
    waits,      \* waits[t]: how often t has called cvar.wait / cvar.wait_timeout
    hist,       \* hist[t]: the steps a modify_and_notify call has taken
    becameTrue, \* becameTrue[t]: a mutation made t's condition true before t's deadline
    inTime,     \* inTime[t]: t was notified of a true condition before its deadline,
                \*            and the condition has been true ever since
    notified,   \* notified[t]: "woken" once a notification has woken t; "sent" when
                \*              one was issued while t was blocked but woke another
                \*              thread; "none" otherwise
    now,        \* the clock (Instant::now())
    spurious    \* spurious wakes so far

vars == <<value, poisoned, locked, call, pc, result, local, timedOut, entered, end, wdl,
          blockedFor, waits, hist, becameTrue, inTime, notified, now, spurious>>

Threads == 1..NThreads

WaitUntilCall(k, p) ==
    [op |-> "wait_until", k |-> k, panics |-> p, dur |-> 0, other |-> "One"]

WaitUntilOrTimeoutCall(k, p, d) ==
    [op |-> "wait_until_or_timeout", k |-> k, panics |-> p, dur |-> d, other |-> "One"]

WaitTimeoutCall(d) ==
    [op |-> "wait_timeout", k |-> 0, panics |-> FALSE, dur |-> d, other |-> "One"]

ModifyAndNotifyCall(p, o) ==
    [op |-> "modify_and_notify", k |-> 0, panics |-> p, dur |-> 0, other |-> o]

CloneInnerCall ==
    [op |-> "clone_inner", k |-> 0, panics |-> FALSE, dur |-> 0, other |-> "One"]

Other == {"One", "All"}

\* The conditions `|v| *v == k` of the waiters: with one waiter, the other
\* threads can bring the value up to NThreads - 1.
Targets == 1..(NThreads - 1)

\* The calls a thread may make.  A panicking closure panics whatever the
\* value, so one panicking condition and one panicking mutator suffice.
Calls ==
    {WaitUntilCall(k, FALSE) : k \in Targets}
    \cup {WaitUntilCall(1, TRUE)}
    \cup {WaitUntilOrTimeoutCall(k[1], FALSE, k[2]) : k \in Targets \X (0..MaxDur)}
    \cup {WaitTimeoutCall(d) : d \in 0..MaxDur}
    \cup {ModifyAndNotifyCall(FALSE, o) : o \in Other}
    \cup {ModifyAndNotifyCall(TRUE, "One")}
    \cup {CloneInnerCall}

\* An order on the calls: the threads are interchangeable, so Init hands the
\* calls out in this order.
OpRank(op) ==
    CASE op = "wait_until" -> 1
      [] op = "wait_until_or_timeout" -> 2
      [] op = "wait_timeout" -> 3
      [] op = "modify_and_notify" -> 4
      [] op = "clone_inner" -> 5

Rank(c) ==
    OpRank(c.op) * 1000 + c.k * 100 + c.dur * 10
        + (IF c.panics THEN 2 ELSE 0) + (IF c.other = "All" THEN 1 ELSE 0)

Ordered(f) == \A i, j \in Threads : i < j => Rank(f[i]) <= Rank(f[j])

\* condition(&*mtx_guard) for the closure |v| *v == k
Condition(t, v) == v = call[t].k

\* modify(&mut *mtx_guard) for the closure |v| *v += 1
Modify(v) == v + 1

\* As Remaining, with the operands swapped: now - end.
RemainingSwapped(e, n) == IF n > e THEN n - e ELSE 0

\* end - now: Instant - Instant saturates at zero
Remaining(e, n) == IF e > n THEN e - n ELSE 0

\* As TimeoutArg, with the whole duration on every iteration.
TimeoutArgWholeDuration(t) == call[t].dur

\* The timeout handed to cvar.wait_timeout: `end - now`
TimeoutArg(t) == Remaining(end[t], now)

IsTimed(t) == call[t].op \in {"wait_until_or_timeout", "wait_timeout"}

\* The places of a call at which its thread owns the MutexGuard.
HoldingPcs == {"test", "park", "armed", "modify", "write", "notify", "drop", "clone"}

Holders == {t \in Threads : pc[t] \in HoldingPcs}

Blocked == {t \in Threads : pc[t] = "blocked"}

TypeOK ==
    /\ value \in Nat
    /\ poisoned \in BOOLEAN
    /\ locked \in BOOLEAN
    /\ pc \in [Threads -> {"start", "blocked", "reacquire", "done"} \cup HoldingPcs]
    /\ result \in [Threads -> {"none", "Condition", "Timeout", "Notification",
                               "Ok", "Poisoned", "Panicked", "Cloned"}]
    /\ now \in 0..MaxTime

InitWith(c) ==
    /\ value = 0
    /\ poisoned = FALSE
    /\ locked = FALSE
    /\ call = c
    /\ pc = [t \in Threads |-> "start"]
    /\ result = [t \in Threads |-> "none"]
    /\ local = [t \in Threads |-> 0]
    /\ timedOut = [t \in Threads |-> FALSE]
    /\ entered = [t \in Threads |-> 0]
    /\ end = [t \in Threads |-> 0]
    /\ wdl = [t \in Threads |-> 0]
    /\ blockedFor = [t \in Threads |-> 0]
    /\ waits = [t \in Threads |-> 0]
    /\ hist = [t \in Threads |-> <<>>]
    /\ becameTrue = [t \in Threads |-> FALSE]
    /\ inTime = [t \in Threads |-> FALSE]
    /\ notified = [t \in Threads |-> "none"]
    /\ now = 0
    /\ spurious = 0

\* CondSync::new(0_usize), cloned into every thread; any call per thread.
Init ==
    \E f \in [Threads -> Calls] : Ordered(f) /\ InitWith(f)

-----------------------------------------------------------------------------
(* What a step leaves alone. *)

MutexUnchanged == UNCHANGED <<value, poisoned, locked>>
TimerUnchanged == UNCHANGED <<timedOut, entered, end, wdl>>
ClockUnchanged == UNCHANGED <<blockedFor, now, spurious>>
CountsUnchanged == UNCHANGED <<blockedFor, now, spurious, waits>>
NotesUnchanged == UNCHANGED <<hist, becameTrue, inTime, notified>>


\* `return r`: the guard, if any, has been dropped by the caller of Return.
Return(t, r) ==
    /\ pc' = [pc EXCEPT ![t] = "done"]
    /\ result' = [result EXCEPT ![t] = r]

Goto(t, p) ==
    /\ pc' = [pc EXCEPT ![t] = p]
    /\ UNCHANGED result

\* cvar.wait(mtx_guard) / cvar.wait_timeout(mtx_guard, _): the calling thread
\* unlocks the mutex and blocks, atomically.
Wait(t) ==
    /\ Goto(t, "blocked")
    /\ waits' = [waits EXCEPT ![t] = @ + 1]

\* The closure panics while its thread holds the guard: unwinding drops the
\* guard, which poisons the mutex and unlocks it.
Panic(t) ==
    /\ poisoned' = TRUE
    /\ locked' = FALSE
    /\ Return(t, "Panicked")

-----------------------------------------------------------------------------
(* wait_until *)

\* let mut mtx_guard = self.0.mtx.lock()?;
WaitUntilLock(t) ==
    /\ call[t].op = "wait_until"
    /\ pc[t] = "start"
    /\ ~locked
    /\ IF poisoned
         THEN Return(t, "Poisoned") /\ UNCHANGED locked
         ELSE Goto(t, "test") /\ locked' = TRUE
    /\ UNCHANGED <<value, poisoned, call, local>>
    /\ TimerUnchanged /\ CountsUnchanged /\ NotesUnchanged

\* As WaitUntilTest, with the guard dropped after a false test, before the wait.
WaitUntilTestUnlock(t) ==
    /\ call[t].op = "wait_until"
    /\ pc[t] = "test"
    /\ IF call[t].panics
         THEN Panic(t)
         ELSE /\ IF Condition(t, value)
                   THEN Return(t, "Condition")
                   ELSE Goto(t, "park")
              /\ locked' = FALSE
              /\ UNCHANGED poisoned
    /\ UNCHANGED <<value, call, local>>
    /\ TimerUnchanged /\ CountsUnchanged /\ NotesUnchanged

\* while !condition(&*mtx_guard) { ... }
\* Ok(Reason::Condition)
WaitUntilTest(t) ==
    /\ call[t].op = "wait_until"
    /\ pc[t] = "test"
    /\ IF call[t].panics
         THEN Panic(t)
         ELSE /\ IF Condition(t, value)
                   THEN Return(t, "Condition") /\ locked' = FALSE
                   ELSE Goto(t, "park") /\ UNCHANGED locked
              /\ UNCHANGED poisoned
    /\ UNCHANGED <<value, call, local>>
    /\ TimerUnchanged /\ CountsUnchanged /\ NotesUnchanged

\* As WaitUntilWait, blocking with the mutex still locked.
WaitUntilWaitLocked(t) ==
    /\ call[t].op = "wait_until"
    /\ pc[t] = "park"
    /\ Wait(t)
    /\ UNCHANGED <<value, poisoned, locked, call, local>>
    /\ TimerUnchanged /\ ClockUnchanged /\ NotesUnchanged

\* self.0.cvar.wait(mtx_guard): the guard held since the test goes into the wait.
WaitUntilWait(t) ==
    /\ call[t].op = "wait_until"
    /\ pc[t] = "park"
    /\ Wait(t)
    /\ locked' = FALSE
    /\ UNCHANGED <<value, poisoned, call, local>>
    /\ TimerUnchanged /\ ClockUnchanged /\ NotesUnchanged

\* As WaitUntilWake, with `if` in place of `while`: no re-test after the wake.
WaitUntilWakeNoRetest(t) ==
    /\ call[t].op = "wait_until"
    /\ pc[t] = "reacquire"
    /\ ~locked
    /\ IF poisoned THEN Return(t, "Poisoned") ELSE Return(t, "Condition")
    /\ UNCHANGED <<call, local>>
    /\ MutexUnchanged /\ TimerUnchanged /\ CountsUnchanged /\ NotesUnchanged

\* cvar.wait returns: the woken thread has re-acquired the mutex; `?` returns
\* PoisonedError when the mutex is poisoned.
WaitUntilWake(t) ==
    /\ call[t].op = "wait_until"
    /\ pc[t] = "reacquire"
    /\ ~locked
    /\ IF poisoned
         THEN Return(t, "Poisoned") /\ UNCHANGED locked
         ELSE Goto(t, "test") /\ locked' = TRUE
    /\ UNCHANGED <<value, poisoned, call, local>>
    /\ TimerUnchanged /\ CountsUnchanged /\ NotesUnchanged

-----------------------------------------------------------------------------
(* wait_until_or_timeout *)

\* let mut mtx_guard = self.0.mtx.lock()?;
\* let end = Instant::now() + duration;
WaitUntilOrTimeoutLock(t) ==
    /\ call[t].op = "wait_until_or_timeout"
    /\ pc[t] = "start"
    /\ ~locked
    /\ now + call[t].dur <= MaxTime
    /\ IF poisoned
         THEN Return(t, "Poisoned") /\ UNCHANGED <<locked, end>>
         ELSE /\ Goto(t, "test")
              /\ locked' = TRUE
              /\ end' = [end EXCEPT ![t] = now + call[t].dur]
    /\ entered' = [entered EXCEPT ![t] = now]
    /\ UNCHANGED <<value, poisoned, call, local, timedOut, wdl>>
    /\ CountsUnchanged /\ NotesUnchanged

\* As WaitUntilOrTimeoutTest, with the test of the condition made only
\* before the first wait.
WaitUntilOrTimeoutTestOnce(t) ==
    /\ call[t].op = "wait_until_or_timeout"
    /\ pc[t] = "test"
    /\ IF call[t].panics
         THEN Panic(t)
         ELSE /\ IF Condition(t, value) \/ waits[t] > 0
                   THEN Return(t, "Condition") /\ locked' = FALSE
                   ELSE Goto(t, "park") /\ UNCHANGED locked
              /\ UNCHANGED poisoned
    /\ UNCHANGED <<value, call, local>>
    /\ TimerUnchanged /\ CountsUnchanged /\ NotesUnchanged

\* while !condition(&*mtx_guard) { ... }
\* Ok(Reason::Condition)
WaitUntilOrTimeoutTest(t) ==
    /\ call[t].op = "wait_until_or_timeout"
    /\ pc[t] = "test"
    /\ IF call[t].panics
         THEN Panic(t)
         ELSE /\ IF Condition(t, value)
                   THEN Return(t, "Condition") /\ locked' = FALSE
                   ELSE Goto(t, "park") /\ UNCHANGED locked
              /\ UNCHANGED poisoned
    /\ UNCHANGED <<value, call, local>>
    /\ TimerUnchanged /\ CountsUnchanged /\ NotesUnchanged

\* let now = Instant::now();
\* self.0.cvar.wait_timeout(mtx_guard, end - now)
WaitUntilOrTimeoutWait(t) ==
    /\ call[t].op = "wait_until_or_timeout"
    /\ pc[t] = "park"
    /\ Wait(t)
    /\ locked' = FALSE
    /\ wdl' = [wdl EXCEPT ![t] = now + TimeoutArg(t)]
    /\ timedOut' = [timedOut EXCEPT ![t] = FALSE]
    /\ UNCHANGED <<value, poisoned, call, local, entered, end>>
    /\ ClockUnchanged /\ NotesUnchanged

\* As WaitUntilOrTimeoutWake, with `Instant::now() >= end` in place of
\* wtr.timed_out().
WaitUntilOrTimeoutWakeByClock(t) ==
    /\ call[t].op = "wait_until_or_timeout"
    /\ pc[t] = "reacquire"
    /\ ~locked
    /\ IF poisoned
         THEN Return(t, "Poisoned") /\ UNCHANGED locked
         ELSE IF now >= end[t]
                THEN Return(t, "Timeout") /\ UNCHANGED locked
                ELSE Goto(t, "test") /\ locked' = TRUE
    /\ UNCHANGED <<value, poisoned, call, local>>
    /\ TimerUnchanged /\ CountsUnchanged /\ NotesUnchanged

\* As WaitUntilOrTimeoutWake, with a last test of the condition on a timeout.
WaitUntilOrTimeoutWakeLastTest(t) ==
    /\ call[t].op = "wait_until_or_timeout"
    /\ pc[t] = "reacquire"
    /\ ~locked
    /\ IF poisoned
         THEN Return(t, "Poisoned") /\ UNCHANGED locked
         ELSE IF timedOut[t]
                THEN /\ Return(t, IF Condition(t, value) THEN "Condition" ELSE "Timeout")
                     /\ UNCHANGED locked
                ELSE Goto(t, "test") /\ locked' = TRUE
    /\ UNCHANGED <<value, poisoned, call, local>>
    /\ TimerUnchanged /\ CountsUnchanged /\ NotesUnchanged

\* Ok((mtxg, wtr)) => { if wtr.timed_out() { return Ok(Reason::Timeout); }
\*                      mtx_guard = mtxg; }
\* Err(_) => return Err(PoisonedError),
WaitUntilOrTimeoutWake(t) ==
    /\ call[t].op = "wait_until_or_timeout"
    /\ pc[t] = "reacquire"
    /\ ~locked
    /\ IF poisoned
         THEN Return(t, "Poisoned") /\ UNCHANGED locked
         ELSE IF timedOut[t]
                THEN Return(t, "Timeout") /\ UNCHANGED locked
                ELSE Goto(t, "test") /\ locked' = TRUE
    /\ UNCHANGED <<value, poisoned, call, local>>
    /\ TimerUnchanged /\ CountsUnchanged /\ NotesUnchanged

-----------------------------------------------------------------------------
(* wait_timeout *)

\* let mtx_guard = self.0.mtx.lock()?;
\* let end = Instant::now() + duration;
WaitTimeoutLock(t) ==
    /\ call[t].op = "wait_timeout"
    /\ pc[t] = "start"
    /\ ~locked
    /\ now + call[t].dur <= MaxTime
    /\ IF poisoned
         THEN Return(t, "Poisoned") /\ UNCHANGED <<locked, end>>
         ELSE /\ Goto(t, "armed")
              /\ locked' = TRUE
              /\ end' = [end EXCEPT ![t] = now + call[t].dur]
    /\ entered' = [entered EXCEPT ![t] = now]
    /\ UNCHANGED <<value, poisoned, call, local, timedOut, wdl>>
    /\ CountsUnchanged /\ NotesUnchanged

\* self.0.cvar.wait_timeout(mtx_guard, end - Instant::now())
WaitTimeoutWait(t) ==
    /\ call[t].op = "wait_timeout"
    /\ pc[t] = "armed"
    /\ Wait(t)
    /\ locked' = FALSE
    /\ wdl' = [wdl EXCEPT ![t] = now + TimeoutArg(t)]
    /\ timedOut' = [timedOut EXCEPT ![t] = FALSE]
    /\ UNCHANGED <<value, poisoned, call, local, entered, end>>
    /\ ClockUnchanged /\ NotesUnchanged

\* As WaitTimeoutWake, in a loop: a wake that is not a timeout waits again.
WaitTimeoutWakeLoop(t) ==
    /\ call[t].op = "wait_timeout"
    /\ pc[t] = "reacquire"
    /\ ~locked
    /\ IF poisoned
         THEN Return(t, "Poisoned") /\ UNCHANGED locked
         ELSE IF timedOut[t]
                THEN Return(t, "Timeout") /\ UNCHANGED locked
                ELSE Goto(t, "armed") /\ locked' = TRUE
    /\ UNCHANGED <<value, poisoned, call, local>>
    /\ TimerUnchanged /\ CountsUnchanged /\ NotesUnchanged

\* As WaitTimeoutWake, with the two reasons exchanged.
WaitTimeoutWakeSwapped(t) ==
    /\ call[t].op = "wait_timeout"
    /\ pc[t] = "reacquire"
    /\ ~locked
    /\ IF poisoned
         THEN Return(t, "Poisoned")
         ELSE IF timedOut[t]
                THEN Return(t, "Notification")
                ELSE Return(t, "Timeout")
    /\ UNCHANGED <<call, local>>
    /\ MutexUnchanged /\ TimerUnchanged /\ CountsUnchanged /\ NotesUnchanged

\* As WaitTimeoutWake, with `Instant::now() >= end` in place of wtr.timed_out().
WaitTimeoutWakeByClock(t) ==
    /\ call[t].op = "wait_timeout"
    /\ pc[t] = "reacquire"
    /\ ~locked
    /\ IF poisoned
         THEN Return(t, "Poisoned")
         ELSE IF now >= end[t]
                THEN Return(t, "Timeout")
                ELSE Return(t, "Notification")
    /\ UNCHANGED <<call, local>>
    /\ MutexUnchanged /\ TimerUnchanged /\ CountsUnchanged /\ NotesUnchanged

\* .map(|(_, wtr)| if wtr.timed_out() { Reason::Timeout }
\*                 else { Reason::Notification })?
WaitTimeoutWake(t) ==
    /\ call[t].op = "wait_timeout"
    /\ pc[t] = "reacquire"
    /\ ~locked
    /\ IF poisoned
         THEN Return(t, "Poisoned")
         ELSE IF timedOut[t]
                THEN Return(t, "Timeout")
                ELSE Return(t, "Notification")
    /\ UNCHANGED <<call, local>>
    /\ MutexUnchanged /\ TimerUnchanged /\ CountsUnchanged /\ NotesUnchanged

-----------------------------------------------------------------------------
(* modify_and_notify *)

Note(t, step) == [hist EXCEPT ![t] = Append(@, step)]

\* As ModifyAndNotifyLock, without waiting for the mutex to be free.
ModifyAndNotifyNoLock(t) ==
    /\ call[t].op = "modify_and_notify"
    /\ pc[t] = "start"
    /\ IF poisoned
         THEN Return(t, "Poisoned") /\ UNCHANGED <<locked, hist>>
         ELSE /\ Goto(t, "modify")
              /\ locked' = TRUE
              /\ hist' = Note(t, "acquire")
    /\ UNCHANGED <<value, poisoned, call, local, becameTrue, inTime, notified>>
    /\ TimerUnchanged /\ CountsUnchanged

\* As ModifyAndNotifyLock, with notify_all issued before the `?` on a
\* poisoned mutex.
ModifyAndNotifyLockNotifyFirst(t) ==
    /\ call[t].op = "modify_and_notify"
    /\ pc[t] = "start"
    /\ ~locked
    /\ IF poisoned
         THEN /\ pc' = [w \in Threads |->
                        IF w = t THEN "done"
                        ELSE IF pc[w] = "blocked" THEN "reacquire" ELSE pc[w]]
              /\ result' = [result EXCEPT ![t] = "Poisoned"]
              /\ UNCHANGED <<locked, hist>>
         ELSE /\ Goto(t, "modify")
              /\ locked' = TRUE
              /\ hist' = Note(t, "acquire")
    /\ UNCHANGED <<value, poisoned, call, local, becameTrue, inTime, notified>>
    /\ TimerUnchanged /\ CountsUnchanged

\* let mut mtx_guard = self.0.mtx.lock()?;
ModifyAndNotifyLock(t) ==
    /\ call[t].op = "modify_and_notify"
    /\ pc[t] = "start"
    /\ ~locked
    /\ IF poisoned
         THEN Return(t, "Poisoned") /\ UNCHANGED <<locked, hist>>
         ELSE /\ Goto(t, "modify")
              /\ locked' = TRUE
              /\ hist' = Note(t, "acquire")
    /\ UNCHANGED <<value, poisoned, call, local, becameTrue, inTime, notified>>
    /\ TimerUnchanged /\ CountsUnchanged

\* As ModifyAndNotifyRead, with a notify_all issued while the panic unwinds.
ModifyAndNotifyReadPanicNotifies(t) ==
    /\ call[t].op = "modify_and_notify"
    /\ pc[t] = "modify"
    /\ IF call[t].panics
         THEN /\ poisoned' = TRUE
              /\ locked' = FALSE
              /\ pc' = [w \in Threads |->
                        IF w = t THEN "done"
                        ELSE IF pc[w] = "blocked" THEN "reacquire" ELSE pc[w]]
              /\ result' = [result EXCEPT ![t] = "Panicked"]
              /\ UNCHANGED local
         ELSE /\ Goto(t, "write")
              /\ local' = [local EXCEPT ![t] = value]
              /\ UNCHANGED <<poisoned, locked>>
    /\ UNCHANGED <<value, call>>
    /\ TimerUnchanged /\ CountsUnchanged /\ NotesUnchanged

\* modify(&mut *mtx_guard): the closure reads the value ...
ModifyAndNotifyRead(t) ==
    /\ call[t].op = "modify_and_notify"
    /\ pc[t] = "modify"
    /\ IF call[t].panics
         THEN Panic(t) /\ UNCHANGED local
         ELSE /\ Goto(t, "write")
              /\ local' = [local EXCEPT ![t] = value]
              /\ UNCHANGED <<poisoned, locked>>
    /\ UNCHANGED <<value, call>>
    /\ TimerUnchanged /\ CountsUnchanged /\ NotesUnchanged

\* A timed waiter whose deadline lies ahead.
BeforeDeadline(w) ==
    /\ call[w].op = "wait_until_or_timeout"
    /\ pc[w] \notin {"start", "done"}
    /\ now < end[w]

\* As ModifyAndNotifyWrite, followed by drop(mtx_guard): the notification
\* is then issued with the mutex released.
ModifyAndNotifyWriteAndDrop(t) ==
    /\ call[t].op = "modify_and_notify"
    /\ pc[t] = "write"
    /\ value' = Modify(local[t])
    /\ Goto(t, "notify")
    /\ locked' = FALSE
    /\ hist' = [hist EXCEPT ![t] = @ \o <<"mutate", "release">>]
    /\ UNCHANGED <<poisoned, call, local, becameTrue, inTime, notified>>
    /\ TimerUnchanged /\ CountsUnchanged

\* ... and writes the new one.
ModifyAndNotifyWrite(t) ==
    /\ call[t].op = "modify_and_notify"
    /\ pc[t] = "write"
    /\ value' = Modify(local[t])
    /\ Goto(t, "notify")
    /\ hist' = Note(t, "mutate")
    /\ becameTrue' = [w \in Threads |->
                        becameTrue[w] \/ (BeforeDeadline(w) /\ Condition(w, value'))]
    /\ inTime' = [w \in Threads |->
                    IF pc[w] = "done" THEN inTime[w] ELSE inTime[w] /\ Condition(w, value')]
    /\ UNCHANGED <<poisoned, locked, call, local, notified>>
    /\ TimerUnchanged /\ CountsUnchanged

\* As Woken, with nothing done for Other::One.
WokenOnlyForAll(other) ==
    IF other = "All" THEN {Blocked} ELSE {{}}

\* As Woken, with notify_one for Other::All too.
WokenOneForAll(other) ==
    IF Blocked = {} THEN {Blocked} ELSE {{w} : w \in Blocked}

\* The sets of blocked threads a notification may wake.
\* notify_one wakes one blocked thread, if there is one; notify_all, all.
Woken(other) ==
    IF other = "All" \/ Blocked = {}
      THEN {Blocked}
      ELSE {{w} : w \in Blocked}

\* The notification finds w with a true condition before w's deadline and
\* does not leave it blocked.
Reaches(w, S) ==
    /\ BeforeDeadline(w)
    /\ Condition(w, value)
    /\ \/ w \in S
       \/ pc[w] = "reacquire" /\ ~timedOut[w]

\* What w has seen of notifications, after one that wakes the threads in S.
Notice(w, S) ==
    IF w \in S THEN "woken"
    ELSE IF /\ pc[w] = "blocked"
            /\ IsTimed(w) => now < wdl[w]
            /\ notified[w] = "none"
      THEN "sent"
    ELSE notified[w]

\* As ModifyAndNotifyNotify, with the notification forgotten.
ModifyAndNotifyNoNotify(t) ==
    /\ call[t].op = "modify_and_notify"
    /\ pc[t] = "notify"
    /\ Goto(t, "drop")
    /\ UNCHANGED <<call, local, hist, becameTrue, inTime, notified>>
    /\ MutexUnchanged /\ TimerUnchanged /\ CountsUnchanged

\* match other { Other::One => self.0.cvar.notify_one(),
\*               Other::All => self.0.cvar.notify_all() }
ModifyAndNotifyNotify(t) ==
    /\ call[t].op = "modify_and_notify"
    /\ pc[t] = "notify"
    /\ \E S \in Woken(call[t].other) :
        /\ pc' = [w \in Threads |->
                    IF w = t THEN "drop" ELSE IF w \in S THEN "reacquire" ELSE pc[w]]
        /\ timedOut' = [w \in Threads |-> IF w \in S THEN FALSE ELSE timedOut[w]]
        /\ inTime' = [w \in Threads |-> inTime[w] \/ Reaches(w, S)]
        /\ notified' = [w \in Threads |-> Notice(w, S)]
    /\ hist' = Note(t, "notify")
    /\ UNCHANGED <<call, result, local, entered, end, wdl, becameTrue>>
    /\ MutexUnchanged /\ CountsUnchanged

\* Ok(()) and the end of the scope, which drops mtx_guard
ModifyAndNotifyReturn(t) ==
    /\ call[t].op = "modify_and_notify"
    /\ pc[t] = "drop"
    /\ Return(t, "Ok")
    /\ locked' = FALSE
    /\ hist' = Note(t, "release")
    /\ UNCHANGED <<value, poisoned, call, local, becameTrue, inTime, notified>>
    /\ TimerUnchanged /\ CountsUnchanged

-----------------------------------------------------------------------------
(* clone_inner *)

\* As CloneInnerLock, followed by self.0.mtx.clear_poison().
CloneInnerLockClearPoison(t) ==
    /\ call[t].op = "clone_inner"
    /\ pc[t] = "start"
    /\ ~locked
    /\ Goto(t, "clone")
    /\ locked' = TRUE
    /\ poisoned' = FALSE
    /\ UNCHANGED <<value, call, local>>
    /\ TimerUnchanged /\ CountsUnchanged /\ NotesUnchanged

\* As CloneInnerLock, with self.0.mtx.lock().unwrap(): panics on a poisoned mutex.
CloneInnerLockUnwrap(t) ==
    /\ call[t].op = "clone_inner"
    /\ pc[t] = "start"
    /\ ~locked
    /\ IF poisoned
         THEN Return(t, "Panicked") /\ UNCHANGED locked
         ELSE Goto(t, "clone") /\ locked' = TRUE
    /\ UNCHANGED <<value, poisoned, call, local>>
    /\ TimerUnchanged /\ CountsUnchanged /\ NotesUnchanged

\* self.0.mtx.lock().unwrap_or_else(PoisonError::into_inner)
CloneInnerLock(t) ==
    /\ call[t].op = "clone_inner"
    /\ pc[t] = "start"
    /\ ~locked
    /\ Goto(t, "clone")
    /\ locked' = TRUE
    /\ UNCHANGED <<value, poisoned, call, local>>
    /\ TimerUnchanged /\ CountsUnchanged /\ NotesUnchanged

\* .clone(), and the guard is dropped
CloneInnerClone(t) ==
    /\ call[t].op = "clone_inner"
    /\ pc[t] = "clone"
    /\ Return(t, "Cloned")
    /\ local' = [local EXCEPT ![t] = value]
    /\ locked' = FALSE
    /\ UNCHANGED <<value, poisoned, call>>
    /\ TimerUnchanged /\ CountsUnchanged /\ NotesUnchanged

-----------------------------------------------------------------------------
(* std::sync::Condvar and the clock *)

\* A thread blocked in cvar.wait or cvar.wait_timeout wakes without a notification.
SpuriousWake(t) ==
    /\ pc[t] = "blocked"
    /\ spurious < MaxSpurious
    /\ spurious' = spurious + 1
    /\ Goto(t, "reacquire")
    /\ timedOut' = [timedOut EXCEPT ![t] = FALSE]
    /\ UNCHANGED <<call, local, entered, end, wdl, blockedFor, waits, now>>
    /\ MutexUnchanged /\ NotesUnchanged

\* The timeout of cvar.wait_timeout elapses.
TimeoutFire(t) ==
    /\ pc[t] = "blocked"
    /\ IsTimed(t)
    /\ now >= wdl[t]
    /\ Goto(t, "reacquire")
    /\ timedOut' = [timedOut EXCEPT ![t] = TRUE]
    /\ UNCHANGED <<call, local, entered, end, wdl>>
    /\ MutexUnchanged /\ CountsUnchanged /\ NotesUnchanged

\* Time passes, while some timed call is under way and no timeout is due.
Tick ==
    /\ now < MaxTime
    /\ \E t \in Threads : IsTimed(t) /\ pc[t] # "done"
    /\ \A t \in Blocked : IsTimed(t) => now < wdl[t]
    /\ now' = now + 1
    /\ blockedFor' = [t \in Threads |->
                        IF t \in Blocked THEN blockedFor[t] + 1 ELSE blockedFor[t]]
    /\ UNCHANGED <<call, pc, result, local, waits, spurious>>
    /\ MutexUnchanged /\ TimerUnchanged /\ NotesUnchanged

-----------------------------------------------------------------------------

WaitUntilStep(t) ==
    \/ WaitUntilLock(t)
    \/ WaitUntilTest(t)
    \/ WaitUntilWait(t)
    \/ WaitUntilWake(t)

WaitUntilOrTimeoutStep(t) ==
    \/ WaitUntilOrTimeoutLock(t)
    \/ WaitUntilOrTimeoutTest(t)
    \/ WaitUntilOrTimeoutWait(t)
    \/ WaitUntilOrTimeoutWake(t)

WaitTimeoutStep(t) ==
    \/ WaitTimeoutLock(t)
    \/ WaitTimeoutWait(t)
    \/ WaitTimeoutWake(t)

ModifyAndNotifyStep(t) ==
    \/ ModifyAndNotifyLock(t)
    \/ ModifyAndNotifyRead(t)
    \/ ModifyAndNotifyWrite(t)
    \/ ModifyAndNotifyNotify(t)
    \/ ModifyAndNotifyReturn(t)

CloneInnerStep(t) ==
    \/ CloneInnerLock(t)
    \/ CloneInnerClone(t)

Next ==
    \/ \E t \in Threads :
        \/ WaitUntilStep(t)
        \/ WaitUntilOrTimeoutStep(t)
        \/ WaitTimeoutStep(t)
        \/ ModifyAndNotifyStep(t)
        \/ CloneInnerStep(t)
        \/ SpuriousWake(t)
        \/ TimeoutFire(t)
    \/ Tick

\* Any calls, any interleaving, panicking closures included.
Spec == Init /\ [][Next]_vars

-----------------------------------------------------------------------------
(* Calls without a deadline and closures that return, under a fair          *)
(* scheduler: a thread that can take a step of its call eventually does.     *)
(* Spurious wakes may or may not happen.                                     *)

UntimedCalls ==
    {WaitUntilCall(k, FALSE) : k \in Targets}
    \cup {ModifyAndNotifyCall(FALSE, o) : o \in Other}
    \cup {CloneInnerCall}

UntimedInit ==
    \E f \in [Threads -> UntimedCalls] : Ordered(f) /\ InitWith(f)

UntimedNext ==
    \E t \in Threads :
        \/ WaitUntilStep(t)
        \/ ModifyAndNotifyStep(t)
        \/ CloneInnerStep(t)
        \/ SpuriousWake(t)

UntimedFair ==
    \A t \in Threads :
        WF_vars(WaitUntilStep(t) \/ ModifyAndNotifyStep(t) \/ CloneInnerStep(t))

FairSpec == UntimedInit /\ [][UntimedNext]_vars /\ UntimedFair

-----------------------------------------------------------------------------
(* Timed waits beside at least one mutation, with closures that return,      *)
(* under a fair scheduler, a clock that advances and timers that fire.       *)

TimedCalls ==
    {WaitUntilOrTimeoutCall(k[1], FALSE, k[2]) : k \in Targets \X (0..MaxDur)}
    \cup {WaitTimeoutCall(d) : d \in 0..MaxDur}
    \cup {ModifyAndNotifyCall(FALSE, o) : o \in Other}

TimedInit ==
    \E f \in [Threads -> TimedCalls] :
        /\ Ordered(f)
        /\ \E t \in Threads : f[t].op = "modify_and_notify"
        /\ InitWith(f)

TimedNext ==
    \/ \E t \in Threads :
        \/ WaitUntilOrTimeoutStep(t)
        \/ WaitTimeoutStep(t)
        \/ ModifyAndNotifyStep(t)
        \/ SpuriousWake(t)
        \/ TimeoutFire(t)
    \/ Tick

TimedFair ==
    /\ \A t \in Threads :
        /\ WF_vars(WaitUntilOrTimeoutStep(t) \/ WaitTimeoutStep(t) \/ ModifyAndNotifyStep(t))
        /\ WF_vars(TimeoutFire(t))
    /\ WF_vars(Tick)

TimedFairSpec == TimedInit /\ [][TimedNext]_vars /\ TimedFair

-----------------------------------------------------------------------------
(* Waits of every kind beside calls that do not wait, with closures that     *)
(* return, under a fair scheduler, a clock that advances and timers that     *)
(* fire.                                                                     *)

MixedCalls == UntimedCalls \cup TimedCalls

MixedInit ==
    \E f \in [Threads -> MixedCalls] :
        /\ Ordered(f)
        /\ \E t \in Threads : f[t].op \in {"wait_until", "wait_until_or_timeout", "wait_timeout"}
        /\ \E t \in Threads : f[t].op \in {"modify_and_notify", "clone_inner"}
        /\ InitWith(f)

MixedFair ==
    /\ \A t \in Threads :
        /\ WF_vars(WaitUntilStep(t) \/ WaitUntilOrTimeoutStep(t) \/ WaitTimeoutStep(t)
                      \/ ModifyAndNotifyStep(t) \/ CloneInnerStep(t))
        /\ WF_vars(TimeoutFire(t))
    /\ WF_vars(Tick)

MixedFairSpec == MixedInit /\ [][Next]_vars /\ MixedFair

-----------------------------------------------------------------------------
(* The claims. *)

Waiters == {t \in Threads : call[t].op = "wait_until"}
TimedWaiters == {t \in Threads : call[t].op = "wait_until_or_timeout"}
Modifiers == {t \in Threads : call[t].op = "modify_and_notify"}

\* tests/test_wait_until.rs: w waits for `*v == N` while each of the N other
\* threads makes one modify_and_notify(|v| *v += 1, Other::One).
IsTestWaiter(w) ==
    /\ call[w] = WaitUntilCall(NThreads - 1, FALSE)
    /\ \A m \in Threads \ {w} : call[m] = ModifyAndNotifyCall(FALSE, "One")

\* C1: with N threads that each increment the value once (Other::One) and a
\* thread in wait_until(v == N), the wait_until call eventually returns, it
\* returns Reason::Condition, and the value is N when it does.
C1_TestReturnsCondition ==
    /\ \A w \in Threads : IsTestWaiter(w) => <>(pc[w] = "done")
    /\ [](\A w \in Threads :
            IsTestWaiter(w) /\ pc[w] = "done" =>
                result[w] = "Condition" /\ value = NThreads - 1)

\* The waiter of the test has returned Condition after a spurious wake.
C1_Witness ==
    \E w \in Threads :
        IsTestWaiter(w) /\ result[w] = "Condition" /\ spurious > 0

\* C2: wait_until returns neither Timeout nor Notification; it returns
\* Condition only from its test of the condition, made on the current value
\* with the mutex held, when that test is true; after every wake it tests
\* again (unless the mutex is poisoned), and a false test blocks it again.
C2_WaitUntilRetests ==
    [][\A t \in Waiters :
        /\ result'[t] \notin {"Timeout", "Notification"}
        /\ (result[t] = "none" /\ result'[t] = "Condition") =>
              (pc[t] = "test" /\ locked /\ Holders = {t} /\ Condition(t, value))
        /\ (pc[t] = "blocked" /\ pc'[t] # "blocked") => pc'[t] = "reacquire"
        /\ (pc[t] = "reacquire" /\ pc'[t] # "reacquire") =>
              (pc'[t] = "test" \/ result'[t] = "Poisoned")
        /\ (pc[t] = "test" /\ ~Condition(t, value) /\ ~call[t].panics /\ pc'[t] # "test") =>
              pc'[t] = "park"
        /\ (pc[t] = "park" /\ pc'[t] # "park") => pc'[t] = "blocked"
      ]_vars

\* A wait_until call has been woken while its condition is false.
C2_Witness ==
    \E t \in Waiters :
        pc[t] = "test" /\ waits[t] > 0 /\ ~Condition(t, value) /\ ~call[t].panics

\* The mutations that have been written.
Committed == {m \in Modifiers : Len(hist[m]) >= 2}

\* C3: at most one thread holds the mutex, the threads at the places where
\* the code reads or writes the value are the ones holding it, and the value
\* is the number of mutations made: none is lost.
C3_Exclusive ==
    /\ Cardinality(Holders) <= 1
    /\ locked <=> Holders # {}
    /\ value = Cardinality(Committed)

\* Two modify_and_notify calls have returned and a wait_until call has
\* tested the condition between them or after them.
C3_Witness ==
    /\ value = 2
    /\ \E w \in Waiters : result[w] = "Condition"

\* A modify_and_notify(_, Other::One) has written a value that makes the
\* condition of the blocked wait_until call w true, and is about to notify.
NotifyOnePending(w) ==
    /\ w \in Waiters
    /\ pc[w] = "blocked"
    /\ \E m \in Modifiers :
        /\ pc[m] = "notify"
        /\ call[m].other = "One"
        /\ ~Condition(w, local[m])
        /\ Condition(w, value)

\* A wait_until call whose condition is satisfied has returned Condition.
SatisfiedReturn ==
    \E u \in Waiters : result[u] = "Condition" /\ Condition(u, value)

\* C4, as stated: whenever a mutation notified with Other::One makes the
\* condition of a blocked wait_until call true, some wait_until call with a
\* satisfied condition eventually returns Condition, also with blocked
\* waiters of different conditions.  (Read in the claim's favour: nothing is
\* asked once a later mutation has made the condition false again.)
C4_Original ==
    \A w \in Threads :
        NotifyOnePending(w) ~> (SatisfiedReturn \/ ~Condition(w, value))

\* C4, amended: the same, when the mutation satisfies the condition of every
\* thread blocked at the notification, and for as long as the condition of
\* the call stays true.
C4_NotifyOneWakesSatisfied ==
    \A w \in Threads :
        (NotifyOnePending(w) /\ \A b \in Blocked : Condition(b, value))
            ~> (SatisfiedReturn \/ ~Condition(w, value))

\* notify_one has woken one of two blocked wait_until calls whose common
\* condition the mutation satisfies.
C4_Witness ==
    \E m \in Modifiers : \E w, u \in Waiters :
        /\ w # u
        /\ call[m].other = "One" /\ pc[m] = "drop"
        /\ pc[w] = "reacquire" /\ pc[u] = "blocked"
        /\ Condition(w, value) /\ Condition(u, value)
        /\ spurious = 0

\* C5: the notification of a modify_and_notify(_, Other::All) leaves no
\* thread blocked, and a blocked wait_until call whose condition the value
\* satisfies at that notification eventually returns Condition, unless its
\* condition becomes false again.
C5_NotifyAllWakesAll ==
    /\ [][\A m \in Modifiers :
            (pc[m] = "notify" /\ call[m].other = "All" /\ pc'[m] = "drop") =>
                \A w \in Threads : pc'[w] # "blocked"]_vars
    /\ \A w \in Threads :
        (/\ w \in Waiters
         /\ pc[w] = "blocked"
         /\ Condition(w, value)
         /\ \E m \in Modifiers : pc[m] = "notify" /\ call[m].other = "All")
            ~> (result[w] = "Condition" \/ ~Condition(w, value))

\* notify_all has woken two blocked wait_until calls with a satisfied condition.
C5_Witness ==
    \E m \in Modifiers : \E w, u \in Waiters :
        /\ w # u
        /\ call[m].other = "All" /\ pc[m] = "drop"
        /\ pc[w] = "reacquire" /\ pc[u] = "reacquire"
        /\ Condition(w, value) /\ Condition(u, value)
        /\ spurious = 0

\* C6, as stated: a modify_and_notify call that has returned Ok has acquired
\* the mutex, applied the mutator, released the mutex and then notified.
C6_Original ==
    \A m \in Modifiers :
        result[m] = "Ok" => hist[m] = <<"acquire", "mutate", "release", "notify">>

\* C6, amended: a modify_and_notify call that has returned Ok has acquired
\* the mutex, applied the mutator, notified and then released the mutex; when
\* it notifies it holds the mutex and the value is the mutated one.  Every
\* call that returns Ok has notified, whatever the new value.
C6_NotifyBeforeRelease ==
    \A m \in Modifiers :
        /\ result[m] = "Ok" => hist[m] = <<"acquire", "mutate", "notify", "release">>
        /\ pc[m] = "notify" =>
              (locked /\ Holders = {m} /\ value = Modify(local[m]))

\* A waiter woken by the notification finds the mutex still held by the
\* notifying call.
C6_Witness ==
    \E m \in Modifiers : \E w \in Waiters :
        /\ pc[m] = "drop"
        /\ hist[m] = <<"acquire", "mutate", "notify">>
        /\ locked
        /\ pc[w] = "reacquire"
        /\ spurious = 0

\* C7, as stated: a wait_until_or_timeout call whose condition a mutation has
\* made true before the call's deadline does not return Timeout.
C7_Original ==
    \A t \in TimedWaiters : becameTrue[t] => result[t] # "Timeout"

\* C7, amended: a wait_until_or_timeout call returns Condition (or Poisoned,
\* once a closure has panicked) when, before its deadline, a notification was
\* issued with its condition true that did not leave it blocked, and the
\* condition has been true from that notification on.
C7_NotifiedInTime ==
    \A t \in TimedWaiters :
        (inTime[t] /\ pc[t] = "done") => (result[t] = "Condition" \/ poisoned)

\* A call with a deadline ahead, woken by the notification of the mutation
\* that made its condition true, has returned Condition.
C7_Witness ==
    \E t \in TimedWaiters :
        inTime[t] /\ result[t] = "Condition" /\ waits[t] > 0 /\ ~poisoned

\* The condition `*v == k` of t is never true: fewer than k threads mutate.
NeverTrue(t) == Cardinality(Modifiers) < call[t].k

\* C8: a wait_until_or_timeout call whose condition never becomes true
\* returns Timeout once it has the mutex, whatever notifications and spurious
\* wakes it gets (a call that has the mutex never goes back to "start" and a
\* result never changes, so "eventually always" says that each such call
\* ends with Timeout); and no wait_until_or_timeout call returns Timeout
\* before the instant of its entry plus its duration.
C8_NeverTrueTimesOut ==
    /\ <>[](\A t \in TimedWaiters :
            (NeverTrue(t) /\ pc[t] # "start") => result[t] = "Timeout")
    /\ [](\A t \in TimedWaiters :
            result[t] = "Timeout" => now >= entered[t] + call[t].dur)

\* A call whose condition is never true has returned Timeout after a
\* notification and a spurious wake.
C8_Witness ==
    \E t \in TimedWaiters :
        /\ NeverTrue(t)
        /\ result[t] = "Timeout"
        /\ call[t].dur > 0
        /\ waits[t] > 2

\* C9: the deadline of wait_until_or_timeout is the instant of entry plus
\* the duration, every wait of the call ends at that deadline at the latest
\* (or at once, when the deadline has passed), and the time the call has
\* spent blocked never exceeds the duration.
C9_BlockedAtMostDuration ==
    \A t \in TimedWaiters :
        /\ blockedFor[t] <= call[t].dur
        /\ pc[t] \in {"test", "park", "blocked", "reacquire"} =>
              end[t] = entered[t] + call[t].dur
        /\ pc[t] = "blocked" => (wdl[t] = end[t] \/ wdl[t] <= now)

\* A call is blocked in its second wait or a later one, having been blocked
\* for its whole duration.
C9_Witness ==
    \E t \in TimedWaiters :
        /\ pc[t] = "blocked"
        /\ waits[t] > 1
        /\ call[t].dur > 0
        /\ blockedFor[t] = call[t].dur

\* C10: a wait_until_or_timeout call whose timed wait has timed out returns
\* Timeout (or Poisoned) as soon as it has the mutex again, without another
\* test of its condition; and it returns Timeout in no other way.
C10_TimeoutWithoutTest ==
    [][\A t \in TimedWaiters :
        /\ (pc[t] = "reacquire" /\ timedOut[t] /\ pc'[t] # "reacquire") =>
              (pc'[t] = "done" /\ result'[t] \in {"Timeout", "Poisoned"})
        /\ (result[t] = "none" /\ result'[t] = "Timeout") =>
              (pc[t] = "reacquire" /\ timedOut[t])
      ]_vars

\* A call that has timed out is about to return Timeout although its
\* condition is true of the current value.
C10_Witness ==
    \E t \in TimedWaiters :
        /\ pc[t] = "reacquire"
        /\ timedOut[t]
        /\ ~locked
        /\ ~poisoned
        /\ Condition(t, value)

TimeoutWaiters == {t \in Threads : call[t].op = "wait_timeout"}

\* The modify_and_notify calls that have issued their notification.
Notifications == {m \in Modifiers : Len(hist[m]) >= 3}

C12_Original ==
    \A t \in TimeoutWaiters :
        (pc[t] = "done" /\ notified[t] # "none") => result[t] # "Timeout"

\* C12, amended: a wait_timeout call that a notification has woken returns
\* Notification, or the Poisoned error when the mutex is poisoned by the
\* time it has re-acquired it; it does not return Timeout, whatever the
\* clock says when it gets the mutex back.
C12_WokenReturnsNotification ==
    \A t \in TimeoutWaiters :
        (pc[t] = "done" /\ notified[t] = "woken") =>
            result[t] \in {"Notification", "Poisoned"}

\* A wait_timeout call woken by a notification has returned Notification
\* after its deadline.
C12_Witness ==
    \E t \in TimeoutWaiters :
        /\ result[t] = "Notification"
        /\ notified[t] = "woken"
        /\ now >= end[t]
        /\ call[t].dur > 0
        /\ spurious = 0

\* The blocking calls.
Blocking == Waiters \cup TimedWaiters \cup TimeoutWaiters

Cloners == {t \in Threads : call[t].op = "clone_inner"}

\* C13: the poison flag, once set by a panicking closure, is never reset;
\* from then on no call but clone_inner gets the mutex, and every call of
\* wait_until, wait_until_or_timeout, wait_timeout and modify_and_notify
\* that returns, returns the Poisoned error.
C13_PoisonedForGood ==
    /\ [](poisoned => Holders \subseteq Cloners)
    /\ [][/\ poisoned => poisoned'
          /\ \A t \in Blocking \cup Modifiers :
                (poisoned /\ result[t] = "none" /\ result'[t] # "none") =>
                    result'[t] = "Poisoned"
          /\ \A t \in Threads :
                (~poisoned /\ poisoned') => result'[t] = "Panicked" \/ result'[t] = result[t]
         ]_vars

\* On a poisoned cell a clone_inner call has returned and a call that never
\* waited has failed with the Poisoned error.
C13_Witness ==
    /\ poisoned
    /\ \E t \in Blocking \cup Modifiers : result[t] = "Poisoned" /\ waits[t] = 0
    /\ \E c \in Cloners : result[c] = "Cloned"

\* C14: clone_inner gets the mutex whether it is poisoned or not, returns a
\* copy of the value that is in the cell at that moment, never the Poisoned
\* error and never a panic, and changes neither the value nor the poison flag.
C14_CloneInnerNeverFails ==
    [][\A t \in Cloners :
        /\ (pc[t] = "start" /\ pc'[t] # "start") =>
              (pc'[t] = "clone" /\ locked' /\ poisoned' = poisoned /\ value' = value)
        /\ (pc[t] = "clone" /\ pc'[t] # "clone") =>
              /\ result'[t] = "Cloned"
              /\ local'[t] = value
              /\ poisoned' = poisoned /\ value' = value
        /\ result'[t] \in {"none", "Cloned"}
      ]_vars

\* clone_inner holds the poisoned mutex, about to copy a value that a
\* mutation has written.
C14_Witness ==
    \E t \in Cloners : pc[t] = "clone" /\ poisoned /\ value > 0

Acquiring(t) == pc[t] \in {"start", "reacquire"}
Testing(t) == pc[t] \in {"test", "park"}
Parked(t) == pc[t] = "blocked"

\* C16, as stated: a blocking call leaves Acquiring for Testing or a final
\* state, Testing for Blocked or a final state, Blocked for Acquiring, and a
\* final state never.  (Read in the claim's favour: a call may end from
\* Acquiring and from Testing, also with the panic of its own condition.)
C16_Original ==
    [][\A t \in Blocking :
        LET leaves == pc'[t] # pc[t] /\ ~(pc[t] = "test" /\ pc'[t] = "park") IN
        /\ (Acquiring(t) /\ leaves) => pc'[t] \in {"test", "done"}
        /\ (Testing(t) /\ leaves) => pc'[t] \in {"blocked", "done"}
        /\ (Parked(t) /\ leaves) => pc'[t] = "reacquire"
        /\ pc[t] = "done" => pc'[t] = "done"
      ]_vars

\* C16, amended: wait_until and wait_until_or_timeout follow that machine;
\* they end from Testing with Condition (test true) or with the panic of the
\* condition, and from Acquiring with the Poisoned error or, for
\* wait_until_or_timeout after a wait that timed out, with Timeout.
\* wait_timeout has no Testing state: it goes from Acquiring, with the mutex,
\* straight to Blocked, and after its one wait from Acquiring to Timeout,
\* Notification or the Poisoned error.  Every call starts in Acquiring.
C16_StateMachine ==
    /\ \A t \in Threads : pc[t] = "start"
    /\ [][\A t \in Blocking :
            LET leaves == pc'[t] # pc[t]
                timed == call[t].op = "wait_until_or_timeout"
                single == call[t].op = "wait_timeout" IN
            /\ (pc[t] = "start" /\ leaves) =>
                  \/ pc'[t] = (IF single THEN "armed" ELSE "test") /\ ~poisoned
                  \/ result'[t] = "Poisoned" /\ poisoned
            /\ (pc[t] = "reacquire" /\ leaves) =>
                  \/ pc'[t] = "test" /\ ~single /\ ~poisoned /\ ~timedOut[t]
                  \/ result'[t] = "Poisoned" /\ poisoned
                  \/ result'[t] = "Timeout" /\ (timed \/ single) /\ timedOut[t]
                  \/ result'[t] = "Notification" /\ single /\ ~timedOut[t]
            /\ (pc[t] = "test" /\ leaves) =>
                  \/ pc'[t] = "park" /\ ~Condition(t, value)
                  \/ result'[t] = "Condition" /\ Condition(t, value)
                  \/ result'[t] = "Panicked" /\ call[t].panics
            /\ (pc[t] \in {"park", "armed"} /\ leaves) => pc'[t] = "blocked"
            /\ (pc[t] = "blocked" /\ leaves) => pc'[t] = "reacquire"
            /\ pc[t] = "done" => (pc'[t] = "done" /\ result'[t] = result[t])
            /\ pc'[t] = "done" => result'[t] # "none"
       ]_vars

\* A wait_until_or_timeout call is blocked for the third time, and a
\* wait_timeout call has returned.
C16_Witness ==
    /\ \E t \in TimedWaiters : pc[t] = "blocked" /\ waits[t] = 3
    /\ \E t \in TimeoutWaiters : pc[t] = "done"

\* C17: a thread that blocks in cvar.wait or cvar.wait_timeout leaves the
\* mutex unlocked, and, whatever waiters are blocked, every
\* modify_and_notify call and every clone_inner call eventually returns (a
\* call that has returned stays so: "eventually always" says that each returns).
C17_NoDeadlock ==
    /\ [][\A t \in Blocking :
            (pc[t] # "blocked" /\ pc'[t] = "blocked") => ~locked']_vars
    /\ <>[](\A t \in Modifiers \cup Cloners : pc[t] = "done")

\* A modify_and_notify call holds the mutex while a wait_until call and a
\* timed wait are blocked.
C17_Witness ==
    /\ \E m \in Modifiers : pc[m] = "modify"
    /\ \E w \in Waiters : pc[w] = "blocked"
    /\ \E w \in TimedWaiters \cup TimeoutWaiters : pc[w] = "blocked" /\ now < wdl[w]

\* C18: while a wait_until or wait_until_or_timeout call is between a false
\* test of its condition and its wait, its condition is still false and no
\* modify_and_notify call is anywhere between its lock and its return; and
\* when it is the only blocking call, it is blocked with a true condition
\* only while the mutation that made the condition true has yet to notify.
C18_TestAndWaitAtomic ==
    \A w \in Waiters \cup TimedWaiters :
        /\ pc[w] = "park" =>
              /\ ~Condition(w, value)
              /\ \A m \in Modifiers : pc[m] \in {"start", "done"}
        /\ (Blocking = {w} /\ pc[w] = "blocked" /\ Condition(w, value)) =>
              \E m \in Modifiers : pc[m] = "notify"

\* The only blocking call has been woken by the notification of the
\* mutation that made its condition true.
C18_Witness ==
    \E w \in Waiters \cup TimedWaiters :
        /\ Blocking = {w}
        /\ pc[w] = "reacquire"
        /\ notified[w] = "woken"
        /\ Condition(w, value)
        /\ spurious = 0

\* The step is a wake that is not a notification: a spurious wake or a timeout.
OtherWake(w) == spurious' # spurious \/ (timedOut'[w] /\ ~timedOut[w])

\* C19: a modify_and_notify call whose mutator panics issues no
\* notification: its panic wakes no blocked thread, and it ends having only
\* acquired the mutex.  A wait_until call blocked on the poisoned cell
\* leaves the wait only by a spurious wake, and then returns the Poisoned
\* error when it has re-acquired the mutex.
C19_PanicDoesNotNotify ==
    /\ [](\A m \in Modifiers : result[m] = "Panicked" => hist[m] = <<"acquire">>)
    /\ [][/\ \A m \in Modifiers :
                (result[m] = "none" /\ result'[m] = "Panicked") =>
                    /\ \A w \in Threads \ {m} : pc'[w] = pc[w]
                    /\ value' = value
          /\ \A w \in Waiters :
                /\ (poisoned /\ pc[w] = "blocked" /\ pc'[w] # "blocked") =>
                      (pc'[w] = "reacquire" /\ OtherWake(w))
                /\ (poisoned /\ pc[w] = "reacquire" /\ pc'[w] # "reacquire") =>
                      result'[w] = "Poisoned"
         ]_vars

\* After the panic of a mutator, a wait_until call that was blocked has
\* returned the Poisoned error.
C19_Witness ==
    /\ \E m \in Modifiers : result[m] = "Panicked"
    /\ \E w \in Waiters : result[w] = "Poisoned" /\ waits[w] > 0

\* C20: the step by which a modify_and_notify call returns the Poisoned
\* error changes neither the value nor the place of any other thread (no
\* blocked thread is woken), and the call has taken no other step: it has
\* not acquired the mutex, applied its mutator or notified.
C20_FailedCallNoEffect ==
    /\ [](\A m \in Modifiers : result[m] = "Poisoned" => hist[m] = <<>>)
    /\ [][\A m \in Modifiers :
            (result[m] = "none" /\ result'[m] = "Poisoned") =>
                /\ pc[m] = "start"
                /\ value' = value
                /\ \A w \in Threads \ {m} : pc'[w] = pc[w]
                /\ notified' = notified
                /\ locked' = locked /\ poisoned' = poisoned
         ]_vars

\* A modify_and_notify call has returned the Poisoned error while another
\* thread is blocked.
C20_Witness ==
    \E m \in Modifiers :
        /\ result[m] = "Poisoned"
        /\ \E w \in Blocking : pc[w] = "blocked"

====
